---- MODULE Spec2Model ----
(***************************************************************************)
(* Universe of src/src/lib.rs: a toroidal Game of Life grid held in a      *)
(* FixedBitSet, with its editing operations and its generation step.       *)
(*                                                                         *)
(* cells is the bit set as a sequence of BOOLEAN: bit i of the FixedBitSet *)
(* is cells[i + 1], and Len(cells) is the bit set's length.  A panic of    *)
(* the Rust code is the outcome "panic" of the call; the object keeps the  *)
(* state it had when the panic was raised.                                 *)
(*                                                                         *)
(* The dimensions of the model are at most 64, so every size and index is  *)
(* far below 2^32 and the u32 products and sums of the source take their   *)
(* mathematical value; what the properties say is said for such grids.     *)
(* The one u32 expression that leaves the range inside the model is        *)
(* width - 1 or height - 1 on a zero dimension, treated at add_pattern.    *)
(***************************************************************************)
EXTENDS Integers, Sequences, FiniteSets, TLC

VARIABLES width, height, cells, pc, next, row, col, last

vars == <<width, height, cells, pc, next, row, col, last>>

\* Largest grid on which the calls of Spec edit cells and compute generations.
MaxWidth == 3
MaxHeight == 2

\* Largest grid of TickSpec.
MaxTickWidth == 3
MaxTickHeight == 3

\* Largest side of the grids of PatternSpec and of NeighborSpec.
MaxPatternSize == 8
MaxNeighborSize == 4

\* Largest grid of LifeSpec.
MaxLifeWidth == 7
MaxLifeHeight == 6

\* let width = 64; let height = 64; in Universe::new
DefaultWidth == 64
DefaultHeight == 64

Glider == "Glider"
Pentomino == "Pentomino"
Pattern == {Glider, Pentomino}

----------------------------------------------------------------------------
\* FixedBitSet, as Universe uses it

\* FixedBitSet::with_capacity(size): size bits, all zero
with_capacity(size) == [i \in 1..size |-> FALSE]

\* bits[idx]: a bit outside the length reads as false
contains(bits, idx) == idx < Len(bits) /\ bits[idx + 1]

\* bits.set(idx, v) and bits.toggle(idx) panic unless idx < length
in_length(bits, idx) == idx < Len(bits)

set(bits, idx, v) == [bits EXCEPT ![idx + 1] = v]

\* toggle that only ever turns the bit on
toggle_turns_on(bits, idx) == [bits EXCEPT ![idx + 1] = TRUE]

toggle(bits, idx) == [bits EXCEPT ![idx + 1] = ~bits[idx + 1]]

\* bits.as_slice(): the blocks of 32 bits that hold the bit set, each block
\* as the set of the positions of its one bits (the block is 0 iff the set is
\* empty)
as_slice(bits) ==
    [k \in 1..((Len(bits) + 31) \div 32) |->
        {b \in 0..31 : contains(bits, 32 * (k - 1) + b)}]

\* slice.chunks(size), size > 0: consecutive runs of size elements, the last
\* one shorter when the length is no multiple of size
chunks(slice, size) ==
    [k \in 1..((Len(slice) + size - 1) \div size) |->
        SubSeq(slice, size * (k - 1) + 1,
               IF size * k < Len(slice) THEN size * k ELSE Len(slice))]

----------------------------------------------------------------------------
\* Universe, private helpers

\* get_index in column-major order
get_index_column_major(w, r, c) == c * w + r

get_index(w, r, c) == r * w + c

\* cells[i] as u8
as_u8(b) == IF b THEN 1 ELSE 0

\* the eight indices without the wraparound of the last row
neighbor_indices_no_south_wrap(w, h, r, c) ==
    LET north == IF r = 0 THEN h - 1 ELSE r - 1
        south == r + 1
        west  == IF c = 0 THEN w - 1 ELSE c - 1
        east  == IF c = w - 1 THEN 0 ELSE c + 1
    IN  [nw |-> get_index(w, north, west), n |-> get_index(w, north, c),
         ne |-> get_index(w, north, east), w |-> get_index(w, r, west),
         e |-> get_index(w, r, east), sw |-> get_index(w, south, west),
         s |-> get_index(w, south, c), se |-> get_index(w, south, east)]

\* the indices live_neighbor_count reads for cell (r, c)
neighbor_indices(w, h, r, c) ==
    LET north == IF r = 0 THEN h - 1 ELSE r - 1
        south == IF r = h - 1 THEN 0 ELSE r + 1
        west  == IF c = 0 THEN w - 1 ELSE c - 1
        east  == IF c = w - 1 THEN 0 ELSE c + 1
    IN  [nw |-> get_index(w, north, west), n |-> get_index(w, north, c),
         ne |-> get_index(w, north, east), w |-> get_index(w, r, west),
         e |-> get_index(w, r, east), sw |-> get_index(w, south, west),
         s |-> get_index(w, south, c), se |-> get_index(w, south, east)]

\* live_neighbor_count without the wraparound of the last column
live_neighbor_count_no_east_wrap(bits, w, h, r, c) ==
    LET north == IF r = 0 THEN h - 1 ELSE r - 1
        south == IF r = h - 1 THEN 0 ELSE r + 1
        west  == IF c = 0 THEN w - 1 ELSE c - 1
        east  == c + 1
        nw == get_index(w, north, west)
        n  == get_index(w, north, c)
        ne == get_index(w, north, east)
        wi == get_index(w, r, west)
        e  == get_index(w, r, east)
        sw == get_index(w, south, west)
        s  == get_index(w, south, c)
        se == get_index(w, south, east)
    IN  as_u8(contains(bits, nw)) + as_u8(contains(bits, ne)) + as_u8(contains(bits, n))
        + as_u8(contains(bits, wi)) + as_u8(contains(bits, e))
        + as_u8(contains(bits, s)) + as_u8(contains(bits, sw)) + as_u8(contains(bits, se))

live_neighbor_count(bits, w, h, r, c) ==
    LET ix == neighbor_indices(w, h, r, c)
    IN  as_u8(contains(bits, ix.nw)) + as_u8(contains(bits, ix.ne)) + as_u8(contains(bits, ix.n))
        + as_u8(contains(bits, ix.w)) + as_u8(contains(bits, ix.e))
        + as_u8(contains(bits, ix.s)) + as_u8(contains(bits, ix.sw)) + as_u8(contains(bits, ix.se))

\* the match with its second arm reduced to (true, 3)
next_cell_three_only(cell, live_neighbors) ==
    CASE cell /\ live_neighbors < 2 -> FALSE
      [] cell /\ live_neighbors = 3 -> TRUE
      [] cell /\ live_neighbors > 3 -> FALSE
      [] ~cell /\ live_neighbors = 3 -> TRUE
      [] OTHER -> FALSE

\* the match with its third arm taking x >= 3
next_cell_crowded_at_three(cell, live_neighbors) ==
    CASE cell /\ live_neighbors < 2 -> FALSE
      [] cell /\ live_neighbors = 2 -> TRUE
      [] cell /\ live_neighbors >= 3 -> FALSE
      [] ~cell /\ live_neighbors = 3 -> TRUE
      [] OTHER -> cell

\* the match of tick: (cell, live_neighbors) -> next value of the cell
next_cell(cell, live_neighbors) ==
    CASE cell /\ live_neighbors < 2 -> FALSE
      [] cell /\ live_neighbors \in {2, 3} -> TRUE
      [] cell /\ live_neighbors > 3 -> FALSE
      [] ~cell /\ live_neighbors = 3 -> TRUE
      [] OTHER -> cell

\* the loop of set_cells over the pairs of list: the pairs before the first
\* index outside the bit set are set, and that one panics
RECURSIVE set_cells_run(_, _, _)
set_cells_run(bits, w, list) ==
    IF list = <<>>
    THEN [cells |-> bits, outcome |-> "ok"]
    ELSE LET idx == get_index(w, list[1][1], list[1][2])
         IN  IF in_length(bits, idx)
             THEN set_cells_run(set(bits, idx, TRUE), w, Tail(list))
             ELSE [cells |-> bits, outcome |-> "panic"]

\* the deltas with the last cell of the Glider one column to the left
deltas_glider_misplaced(pattern, w, h) ==
    IF pattern = Glider
    THEN <<(<<0, w - 1>>), (<<1, 0>>), (<<1, 1>>), (<<0, 1>>), (<<h - 1, 0>>)>>
    ELSE <<(<<0, w - 1>>), (<<0, 0>>), (<<1, 0>>), (<<h - 1, 0>>), (<<h - 1, 1>>)>>

\* the deltas of add_pattern; w - 1 and h - 1 stand for one step back
deltas(pattern, w, h) ==
    IF pattern = Glider
    THEN <<(<<0, w - 1>>), (<<1, 0>>), (<<1, 1>>), (<<0, 1>>), (<<h - 1, 1>>)>>
    ELSE <<(<<0, w - 1>>), (<<0, 0>>), (<<1, 0>>), (<<h - 1, 0>>), (<<h - 1, 1>>)>>

\* the cell for one delta, with the two dimensions exchanged
neighbor_dimensions_swapped(w, h, r, c, delta) == <<(r + delta[1]) % w, (c + delta[2]) % h>>

\* the cell add_pattern sets for one delta
neighbor(w, h, r, c, delta) == <<(r + delta[1]) % h, (c + delta[2]) % w>>

\* the loop of add_pattern over the deltas ds
RECURSIVE add_pattern_run(_, _, _, _, _, _)
add_pattern_run(bits, w, h, r, c, ds) ==
    IF ds = <<>>
    THEN [cells |-> bits, outcome |-> "ok"]
    ELSE LET nb == neighbor(w, h, r, c, ds[1])
             idx == get_index(w, nb[1], nb[2])
         IN  IF in_length(bits, idx)
             THEN add_pattern_run(set(bits, idx, TRUE), w, h, r, c, Tail(ds))
             ELSE [cells |-> bits, outcome |-> "panic"]

\* the loop body updating in place: it reads the buffer it writes
tick_cell_in_place(bits, nxt, w, h, r, c) ==
    LET idx == get_index(w, r, c)
        cell == contains(nxt, idx)
        live_neighbors == live_neighbor_count(nxt, w, h, r, c)
    IN  set(nxt, idx, next_cell(cell, live_neighbors))

\* the body of tick's loop for cell (r, c): reads bits, writes nxt
tick_cell(bits, nxt, w, h, r, c) ==
    LET idx == get_index(w, r, c)
        cell == contains(bits, idx)
        live_neighbors == live_neighbor_count(bits, w, h, r, c)
    IN  set(nxt, idx, next_cell(cell, live_neighbors))

\* the two glyphs of Display::fmt (a white and a black square) and "\n"
DeadSymbol == "white square"
AliveSymbol == "black square"
Newline == "newline"

\* what Display::fmt writes for one chunk: a glyph per block, then "\n"
fmt_line(line) ==
    [k \in 1..Len(line) |-> IF line[k] = {} THEN DeadSymbol ELSE AliveSymbol]
        \o <<Newline>>

\* what Display::fmt writes for the chunks from the k-th on
RECURSIVE fmt_lines(_, _)
fmt_lines(lines, k) ==
    IF k > Len(lines) THEN <<>> ELSE fmt_line(lines[k]) \o fmt_lines(lines, k + 1)

\* Display::fmt, for w > 0: the text written
fmt(bits, w) == fmt_lines(chunks(as_slice(bits), w), 1)

\* a seed on the multiples of 2 and of 5
seed_bit_two_or_five(i) == i % 2 = 0 \/ i % 5 = 0

\* the seed of new() and the fill of set_preset(0)
seed_bit(i) == i % 2 = 0 \/ i % 7 = 0

preset_bit(i) == i % 3 = 0 \/ i % 8 = 0 \/ i % 7 = 0

----------------------------------------------------------------------------
\* The calls take their arguments from these sets.

\* a dimension: within the bounds, or the default one
WidthArgs == 0..MaxWidth \cup {DefaultWidth}
HeightArgs == 0..MaxHeight \cup {DefaultHeight}

\* preset codes: the defined one and two of the others
PresetArgs == {0, 1, 255}

\* coordinates: every cell of the grid and one row, one column beyond it
RowArgs == 0..height
ColArgs == 0..width

\* lists for set_cells: up to two pairs among the first cell of the grid and
\* the cells just beyond its last row and its last column
PairArgs == {<<r, c>> : r \in {0, height}, c \in {0, width}}
ListArgs == {<<>>} \cup {<<p>> : p \in PairArgs}
                   \cup {<<p, q>> : p \in PairArgs, q \in PairArgs}

\* the last call: its name and how it ended
Done(op, outcome) == [op |-> op, outcome |-> outcome]

\* a render that returned text
Rendered(text) == [op |-> "render", outcome |-> "ok", text |-> text]

\* every bit set of the given length
Grids(size) == [1..size -> BOOLEAN]

----------------------------------------------------------------------------
\* Universe::new
Init ==
    /\ width = DefaultWidth
    /\ height = DefaultHeight
    /\ cells = [i \in 1..(DefaultWidth * DefaultHeight) |-> seed_bit(i - 1)]
    /\ pc = "idle"
    /\ next = <<>>
    /\ row = 0
    /\ col = 0
    /\ last = Done("new", "ok")

\* set_width that keeps the old bit set
set_width_keeps_cells(w) ==
    /\ pc = "idle"
    /\ width' = w
    /\ last' = Done("set_width", "ok")
    /\ UNCHANGED <<cells, height, pc, next, row, col>>

set_width(w) ==
    /\ pc = "idle"
    /\ width' = w
    /\ cells' = with_capacity(w * height)
    /\ last' = Done("set_width", "ok")
    /\ UNCHANGED <<height, pc, next, row, col>>

\* set_height that makes the grid square
set_height_sets_width(h) ==
    /\ pc = "idle"
    /\ height' = h
    /\ width' = h
    /\ cells' = with_capacity(h * h)
    /\ last' = Done("set_height", "ok")
    /\ UNCHANGED <<pc, next, row, col>>

\* set_height that sizes the bit set by the old height
set_height_old_size(h) ==
    /\ pc = "idle"
    /\ height' = h
    /\ cells' = with_capacity(width * height)
    /\ last' = Done("set_height", "ok")
    /\ UNCHANGED <<width, pc, next, row, col>>

set_height(h) ==
    /\ pc = "idle"
    /\ height' = h
    /\ cells' = with_capacity(width * h)
    /\ last' = Done("set_height", "ok")
    /\ UNCHANGED <<width, pc, next, row, col>>

\* set_preset that leaves the grid alone for a code other than 0
set_preset_keeps_unknown(preset) ==
    /\ pc = "idle"
    /\ LET size == width * height
       IN  cells' = IF preset = 0
                    THEN [i \in 1..size |-> preset_bit(i - 1)]
                    ELSE cells
    /\ last' = Done("set_preset", "ok")
    /\ UNCHANGED <<width, height, pc, next, row, col>>

set_preset(preset) ==
    /\ pc = "idle"
    /\ LET size == width * height
       IN  cells' = IF preset = 0
                    THEN [i \in 1..size |-> preset_bit(i - 1)]
                    ELSE with_capacity(size)
    /\ last' = Done("set_preset", "ok")
    /\ UNCHANGED <<width, height, pc, next, row, col>>

toggle_cell(r, c) ==
    /\ pc = "idle"
    /\ LET idx == get_index(width, r, c)
       IN  IF in_length(cells, idx)
           THEN /\ cells' = toggle(cells, idx)
                /\ last' = Done("toggle_cell", "ok")
           ELSE /\ cells' = cells
                /\ last' = Done("toggle_cell", "panic")
    /\ UNCHANGED <<width, height, pc, next, row, col>>

set_cells(list) ==
    /\ pc = "idle"
    /\ LET run == set_cells_run(cells, width, list)
       IN  /\ cells' = run.cells
           /\ last' = Done("set_cells", run.outcome)
    /\ UNCHANGED <<width, height, pc, next, row, col>>

\* On a zero dimension the first remainder (% self.height, or % self.width
\* when only the width is zero) divides by zero and panics before any cell
\* is written; a build with overflow checks panics earlier still, at
\* self.width - 1 or self.height - 1.
add_pattern(r, c, pattern) ==
    /\ pc = "idle"
    /\ IF width = 0 \/ height = 0
       THEN /\ cells' = cells
            /\ last' = Done("add_pattern", "panic")
       ELSE LET run == add_pattern_run(cells, width, height, r, c,
                                       deltas(pattern, width, height))
            IN  /\ cells' = run.cells
                /\ last' = Done("add_pattern", run.outcome)
    /\ UNCHANGED <<width, height, pc, next, row, col>>

\* tick, one step per cell of its loops: let mut next = self.cells.clone()
tick_begin ==
    /\ pc = "idle"
    /\ pc' = "tick"
    /\ next' = cells
    /\ row' = 0
    /\ col' = 0
    /\ last' = Done("tick", "running")
    /\ UNCHANGED <<width, height, cells>>

\* the loops with the rows 0..=height
tick_step_one_row_more ==
    /\ pc = "tick"
    /\ row <= height
    /\ col < width
    /\ IF in_length(next, get_index(width, row, col))
       THEN /\ next' = tick_cell(cells, next, width, height, row, col)
            /\ IF col + 1 < width
               THEN row' = row /\ col' = col + 1
               ELSE row' = row + 1 /\ col' = 0
            /\ UNCHANGED <<pc, last>>
       ELSE /\ pc' = "idle"
            /\ next' = <<>>
            /\ row' = 0
            /\ col' = 0
            /\ last' = Done("tick", "panic")
    /\ UNCHANGED <<width, height, cells>>

\* one pass of the inner loop
tick_step ==
    /\ pc = "tick"
    /\ row < height
    /\ col < width
    /\ IF in_length(next, get_index(width, row, col))
       THEN /\ next' = tick_cell(cells, next, width, height, row, col)
            /\ IF col + 1 < width
               THEN row' = row /\ col' = col + 1
               ELSE row' = row + 1 /\ col' = 0
            /\ UNCHANGED <<pc, last>>
       ELSE /\ pc' = "idle"
            /\ next' = <<>>
            /\ row' = 0
            /\ col' = 0
            /\ last' = Done("tick", "panic")
    /\ UNCHANGED <<width, height, cells>>

\* self.cells = next, once the loops are over
tick_end ==
    /\ pc = "tick"
    /\ row >= height \/ width = 0
    /\ cells' = next
    /\ pc' = "idle"
    /\ next' = <<>>
    /\ row' = 0
    /\ col' = 0
    /\ last' = Done("tick", "ok")
    /\ UNCHANGED <<width, height>>

\* width(), height() and get_cells() return a field and change nothing
call_width ==
    /\ pc = "idle"
    /\ last' = Done("width", "ok")
    /\ UNCHANGED <<width, height, cells, pc, next, row, col>>

call_height ==
    /\ pc = "idle"
    /\ last' = Done("height", "ok")
    /\ UNCHANGED <<width, height, cells, pc, next, row, col>>

get_cells ==
    /\ pc = "idle"
    /\ last' = Done("get_cells", "ok")
    /\ UNCHANGED <<width, height, cells, pc, next, row, col>>

\* render: self.to_string(), that is Display::fmt; chunks panics on a chunk
\* size of 0, whatever the slice
render ==
    /\ pc = "idle"
    /\ last' = IF width = 0
               THEN Done("render", "panic")
               ELSE Rendered(fmt(cells, width))
    /\ UNCHANGED <<width, height, cells, pc, next, row, col>>

----------------------------------------------------------------------------
\* Spec: every call, from new(); cells are edited on the grids within
\* MaxWidth x MaxHeight, and generations computed on these and on the grids
\* without cells.

Small == width <= MaxWidth /\ height <= MaxHeight

Next ==
    \/ \E w \in WidthArgs : set_width(w)
    \/ \E h \in HeightArgs : set_height(h)
    \/ \E preset \in PresetArgs : set_preset(preset)
    \/ \E r \in RowArgs, c \in ColArgs : Small /\ toggle_cell(r, c)
    \/ \E list \in ListArgs : Small /\ set_cells(list)
    \/ \E r \in RowArgs, c \in ColArgs, pattern \in Pattern :
          Small /\ add_pattern(r, c, pattern)
    \/ (Small \/ width = 0 \/ height = 0) /\ tick_begin
    \/ tick_step
    \/ tick_end
    \/ call_width
    \/ call_height
    \/ get_cells
    \/ render

Spec == Init /\ [][Next]_vars

----------------------------------------------------------------------------
\* TickSpec: generations of every grid within MaxTickWidth x MaxTickHeight
\* (set_width, set_height and set_cells build each of them).

TickInit ==
    /\ width \in 0..MaxTickWidth
    /\ height \in 0..MaxTickHeight
    /\ cells \in Grids(width * height)
    /\ pc = "idle"
    /\ next = <<>>
    /\ row = 0
    /\ col = 0
    /\ last = Done("set_cells", "ok")

TickNext ==
    \/ tick_begin
    \/ tick_step
    \/ tick_end

TickSpec == TickInit /\ [][TickNext]_vars

----------------------------------------------------------------------------
\* NeighborSpec: generations of the grids up to MaxNeighborSize a side whose
\* only live cell is (0, 0) (set_width, set_height, then set_cells of that
\* one pair build each of them).

NeighborInit ==
    /\ width \in 1..MaxNeighborSize
    /\ height \in 1..MaxNeighborSize
    /\ cells = [i \in 1..(width * height) |-> i = 1]
    /\ pc = "idle"
    /\ next = <<>>
    /\ row = 0
    /\ col = 0
    /\ last = Done("set_cells", "ok")

NeighborSpec == NeighborInit /\ [][TickNext]_vars

----------------------------------------------------------------------------
\* PatternSpec: one add_pattern on the grids up to MaxPatternSize a side, all
\* Dead or filled by preset 0 (set_width, set_height, then set_preset build
\* each of them).

PatternInit ==
    /\ width \in 1..MaxPatternSize
    /\ height \in 1..MaxPatternSize
    /\ cells \in {with_capacity(width * height),
                  [i \in 1..(width * height) |-> preset_bit(i - 1)]}
    /\ pc = "idle"
    /\ next = <<>>
    /\ row = 0
    /\ col = 0
    /\ last = Done("set_preset", "ok")

PatternNext ==
    \E r \in RowArgs, c \in ColArgs, pattern \in Pattern :
        last.op = "set_preset" /\ add_pattern(r, c, pattern)

PatternSpec == PatternInit /\ [][PatternNext]_vars

----------------------------------------------------------------------------
\* LifeSpec: the generations that follow a blinker or a 2 x 2 block placed
\* with set_cells, or a Glider placed with add_pattern, on the all-Dead grids
\* from 1 x 1 to MaxLifeWidth x MaxLifeHeight (set_width and set_height build
\* each of them).

LifeInit ==
    /\ width \in 1..MaxLifeWidth
    /\ height \in 1..MaxLifeHeight
    /\ cells = with_capacity(width * height)
    /\ pc = "idle"
    /\ next = <<>>
    /\ row = 0
    /\ col = 0
    /\ last = Done("set_height", "ok")

\* three cells in a row, around (r, c)
BlinkerList(r, c) == <<(<<r, c - 1>>), (<<r, c>>), (<<r, c + 1>>)>>

\* the 2 x 2 block whose first cell is (r, c), on the torus
BlockList(r, c) ==
    <<(<<r, c>>), (<<r, (c + 1) % width>>),
      (<<(r + 1) % height, c>>), (<<(r + 1) % height, (c + 1) % width>>)>>

LifeNext ==
    \/ \E r \in 0..(height - 1), c \in 1..(width - 2) :
          cells = with_capacity(width * height) /\ set_cells(BlinkerList(r, c))
    \/ \E r \in 0..(height - 1), c \in 0..(width - 1) :
          cells = with_capacity(width * height) /\ set_cells(BlockList(r, c))
    \/ \E r \in 0..(height - 1), c \in 0..(width - 1) :
          cells = with_capacity(width * height) /\ add_pattern(r, c, Glider)
    \/ tick_begin
    \/ tick_step
    \/ tick_end

LifeSpec == LifeInit /\ [][LifeNext]_vars

----------------------------------------------------------------------------
\* Helpers of the properties

\* (row, column) of the cell with linear index i on a grid w wide
RowOf(i, w) == i \div w
ColOf(i, w) == i % w

\* the live cells, as (row, column) pairs
Alive(bits, w) == {<<RowOf(i, w), ColOf(i, w)>> : i \in {j \in 0..(Len(bits) - 1) : bits[j + 1]}}

AllDead(bits) == \A i \in 1..Len(bits) : ~bits[i]

\* i is divisible by d
Divides(d, i) == (i \div d) * d = i

\* (r, c) lies outside a grid w wide and h high
OutOfRange(r, c, w, h) == r >= h \/ c >= w

\* the number of elements of the sequence seq that equal x
RECURSIVE Occurrences(_, _)
Occurrences(seq, x) ==
    IF seq = <<>> THEN 0
    ELSE (IF seq[1] = x THEN 1 ELSE 0) + Occurrences(Tail(seq), x)

\* the generation that follows bits, every count taken from bits
NextGeneration(bits, w, h) ==
    [i \in 1..Len(bits) |->
        next_cell(bits[i], live_neighbor_count(bits, w, h, RowOf(i - 1, w), ColOf(i - 1, w)))]

----------------------------------------------------------------------------
\* C1: in every state reachable from new() by set_width, set_height,
\* set_preset, set_cells, toggle_cell, add_pattern and tick, the number of
\* cells stored is width * height.
C1_CellCount == Len(cells) = width * height

\* a grid that was resized, edited and then ticked
C1_Witness ==
    /\ last = Done("tick", "ok")
    /\ width = 2 /\ height = 2
    /\ Len(cells) = 4
    /\ ~AllDead(cells)

\* C2: tick maps (state, live-neighbor count) to the next state by the table:
\* Alive with n < 2 dies, Alive with n = 2 or 3 stays Alive, Alive with n > 3
\* dies, Dead with n = 3 becomes Alive, Dead with n # 3 stays Dead.
RuleTable ==
    [alive \in BOOLEAN, n \in 0..8 |->
        IF alive
        THEN IF n < 2 THEN FALSE ELSE IF n = 2 \/ n = 3 THEN TRUE ELSE FALSE
        ELSE IF n = 3 THEN TRUE ELSE FALSE]

C2_RuleTable ==
    [][tick_end =>
        \A i \in 1..Len(cells) :
            cells'[i] = RuleTable[cells[i],
                live_neighbor_count(cells, width, height,
                                    RowOf(i - 1, width), ColOf(i - 1, width))]]_vars

\* the count and the state of cell i, while tick runs
CaseOf(i, alive, n) ==
    /\ cells[i] = alive
    /\ live_neighbor_count(cells, width, height,
                           RowOf(i - 1, width), ColOf(i - 1, width)) = n

\* tick has computed every cell of a grid that holds a survival with two
\* neighbors and a birth
C2_Witness ==
    /\ pc = "tick" /\ row >= height /\ width > 0
    /\ \E i \in 1..Len(cells) : CaseOf(i, TRUE, 2) /\ next[i]
    /\ \E i \in 1..Len(cells) : CaseOf(i, FALSE, 3) /\ next[i]

\* each of the 2 x 9 cases of the table, met by a cell that tick has computed
C2_Cases ==
    [alive \in BOOLEAN, n \in 0..8 |->
        /\ pc = "tick" /\ row >= height /\ width > 0
        /\ \E i \in 1..Len(cells) : CaseOf(i, alive, n)]

\* C3: tick is synchronous: the cell array changes only in the step that ends
\* tick, after the last cell was computed, and becomes the generation
\* computed from the pre-tick grid alone.
C3_Synchronous ==
    [][cells' # cells =>
        /\ pc = "tick" /\ pc' = "idle"
        /\ row >= height \/ width = 0
        /\ cells' = NextGeneration(cells, width, height)]_vars

\* in the middle of the loop the buffer already differs from the visible, pre-tick grid
C3_Witness ==
    /\ pc = "tick"
    /\ row = 1 /\ col = 1
    /\ next # cells
    /\ \E i \in 1..Len(cells) : cells[i]

\* C4: on a W x H grid whose only Alive cell is (0,0), live_neighbor_count is
\* the number of times the cell occurs among (H-1,W-1), (H-1,0), (H-1,1),
\* (0,W-1), (0,1), (1,W-1), (1,0), (1,1), each reduced to the grid (row mod H,
\* column mod W): 1 for each of the eight and 0 for every other cell when
\* W >= 3 and H >= 3, where the eight are distinct and none is (0,0).
OriginNeighbors(w, h) ==
    <<(<<h - 1, w - 1>>), (<<h - 1, 0>>), (<<h - 1, 1 % w>>),
      (<<0, w - 1>>), (<<0, 1 % w>>),
      (<<1 % h, w - 1>>), (<<1 % h, 0>>), (<<1 % h, 1 % w>>)>>

OnlyOrigin == Len(cells) > 0 /\ Alive(cells, width) = {<<0, 0>>}

C4_OriginNeighbors ==
    OnlyOrigin =>
        \A r \in 0..(height - 1), c \in 0..(width - 1) :
            /\ live_neighbor_count(cells, width, height, r, c)
                   = Occurrences(OriginNeighbors(width, height), <<r, c>>)
            /\ width >= 3 /\ height >= 3 =>
                   live_neighbor_count(cells, width, height, r, c)
                       = IF \E k \in 1..8 : OriginNeighbors(width, height)[k] = <<r, c>>
                         THEN 1 ELSE 0

\* C4 as first stated: 1 for each of the eight cells and 0 for every other
\* cell, whatever W and H
C4_AnyDimensions ==
    OnlyOrigin =>
        \A r \in 0..(height - 1), c \in 0..(width - 1) :
            live_neighbor_count(cells, width, height, r, c)
                = IF \E k \in 1..8 : OriginNeighbors(width, height)[k] = <<r, c>>
                  THEN 1 ELSE 0

\* tick counts the neighbors of the last cell of a 4 x 3 grid whose only live cell is (0,0)
C4_Witness ==
    /\ OnlyOrigin
    /\ width = 4 /\ height = 3
    /\ pc = "tick" /\ row = 2 /\ col = 3
    /\ live_neighbor_count(cells, width, height, row, col) = 1
    /\ live_neighbor_count(cells, width, height, 1, 2) = 0

\* C5: set_width(w) yields width = w, the same height and w * height cells,
\* all Dead; set_height(h) yields height = h, the same width and width * h
\* cells, all Dead; whatever the grid held and whether it grows or shrinks.
C5_ResizeAllDead ==
    [][/\ \A w \in WidthArgs : set_width(w) =>
              /\ width' = w /\ height' = height
              /\ Len(cells') = w * height /\ AllDead(cells')
       /\ \A h \in HeightArgs : set_height(h) =>
              /\ height' = h /\ width' = width
              /\ Len(cells') = width * h /\ AllDead(cells')]_vars

\* a grid just resized to a width and height within the bounds
C5_Witness ==
    /\ last.op \in {"set_width", "set_height"}
    /\ width = MaxWidth /\ height = MaxHeight
    /\ Len(cells) = MaxWidth * MaxHeight
    /\ AllDead(cells)

\* C6: set_cells, toggle_cell and add_pattern given a coordinate with
\* row >= height or column >= width end in a bounds-violation error and
\* write no cell.
C6_OutOfRangeFails ==
    [][/\ \A r \in RowArgs, c \in ColArgs :
              OutOfRange(r, c, width, height) /\ toggle_cell(r, c) =>
                  last'.outcome = "panic" /\ cells' = cells
       /\ \A list \in ListArgs :
              (\E k \in 1..Len(list) : OutOfRange(list[k][1], list[k][2], width, height))
              /\ set_cells(list) =>
                  last'.outcome = "panic"
       /\ \A r \in RowArgs, c \in ColArgs, pattern \in Pattern :
              OutOfRange(r, c, width, height) /\ add_pattern(r, c, pattern) =>
                  last'.outcome = "panic" /\ cells' = cells]_vars

\* C7: add_pattern with an anchor whose row >= height or column >= width
\* fails with a bounds-violation error and leaves the grid unchanged.
C7_AnchorOutOfRangeFails ==
    [][\A r \in RowArgs, c \in ColArgs, pattern \in Pattern :
           OutOfRange(r, c, width, height) /\ add_pattern(r, c, pattern) =>
               /\ last'.outcome = "panic"
               /\ <<width', height', cells'>> = <<width, height, cells>>]_vars

\* C8: a call that fails leaves width, height and cells as they were before
\* the call.
C8_FailureChangesNothing ==
    [][pc = "idle" /\ last'.outcome = "panic" =>
           <<width', height', cells'>> = <<width, height, cells>>]_vars

\* C9: for an anchor (r, c) inside a grid of positive dimensions, add_pattern
\* makes Alive exactly the cells ((r + dr) mod height, (c + dc) mod width) of
\* the pattern's five offsets and leaves every other cell as it was; Glider
\* at (0,0) on an all-Dead 8 x 8 grid gives (0,7), (1,0), (1,1), (0,1), (7,1).
Offsets(pattern) ==
    IF pattern = Glider
    THEN {<<0, -1>>, <<1, 0>>, <<1, 1>>, <<0, 1>>, <<-1, 1>>}
    ELSE {<<0, -1>>, <<0, 0>>, <<1, 0>>, <<-1, 0>>, <<-1, 1>>}

Placed(r, c, pattern, w, h) ==
    {<<(r + d[1]) % h, (c + d[2]) % w>> : d \in Offsets(pattern)}

GliderAtOrigin8x8 == {<<0, 7>>, <<1, 0>>, <<1, 1>>, <<0, 1>>, <<7, 1>>}

C9_PatternCells ==
    [][/\ \A r \in 0..(height - 1), c \in 0..(width - 1), pattern \in Pattern :
              add_pattern(r, c, pattern) =>
                  /\ last'.outcome = "ok"
                  /\ Len(cells') = Len(cells)
                  /\ Alive(cells', width)
                         = Alive(cells, width) \cup Placed(r, c, pattern, width, height)
       /\ (width = 8 /\ height = 8 /\ AllDead(cells) /\ add_pattern(0, 0, Glider)) =>
              Alive(cells', 8) = GliderAtOrigin8x8]_vars

\* the all-Dead 8 x 8 grid after a Glider was added at (0,0)
C9_Witness ==
    /\ last = Done("add_pattern", "ok")
    /\ width = 8 /\ height = 8
    /\ Alive(cells, 8) = GliderAtOrigin8x8

\* C10: set_preset(p) keeps width and height and replaces the cell array by
\* one of the same size: for p = 0 cell i is Alive iff i is divisible by 3,
\* by 8 or by 7; for every other p all cells are Dead.
C10_Preset ==
    [][\A p \in PresetArgs : set_preset(p) =>
           /\ width' = width /\ height' = height
           /\ Len(cells') = Len(cells)
           /\ \A i \in 0..(Len(cells') - 1) :
                  cells'[i + 1] = (p = 0 /\ (Divides(3, i) \/ Divides(8, i) \/ Divides(7, i)))]_vars

\* preset 0 on a grid of 64 cells a row: cell 7 and cell 8 are Alive, cell 5 Dead
C10_Witness ==
    /\ last = Done("set_preset", "ok")
    /\ width = DefaultWidth
    /\ Len(cells) >= DefaultWidth
    /\ cells[8] /\ cells[9] /\ ~cells[6]

\* C11: for an in-range (r, c), toggle_cell(r, c) changes the cell at index
\* r * width + c and no other cell, and a second toggle_cell(r, c) restores
\* the grid that existed before the first.
C11_ToggleTwice ==
    [][\A r \in 0..(height - 1), c \in 0..(width - 1) :
           toggle_cell(r, c) =>
               /\ last'.outcome = "ok"
               /\ Len(cells') = Len(cells)
               /\ \A i \in 0..(Len(cells) - 1) :
                      (cells'[i + 1] # cells[i + 1]) <=> (i = r * width + c)
               /\ in_length(cells', get_index(width', r, c))
               /\ toggle(cells', get_index(width', r, c)) = cells]_vars

\* a cell of a 3 x 2 grid was toggled back to Dead while another one is Alive
C11_Witness ==
    /\ last = Done("toggle_cell", "ok")
    /\ width = 3 /\ height = 2
    /\ ~cells[6] /\ cells[2]

\* C12: on a grid with width = 0 or height = 0, tick updates no cell, does
\* not fail, and leaves width, height and the empty cell array unchanged.
C12_EmptyTick ==
    [][width = 0 \/ height = 0 =>
           /\ tick_begin => next' = <<>> /\ cells' = cells
           /\ pc = "tick" =>
                  /\ pc' = "idle"
                  /\ last' = Done("tick", "ok")
                  /\ cells = <<>> /\ cells' = <<>>
                  /\ width' = width /\ height' = height]_vars

\* tick has returned on a grid 3 wide and 0 high
C12_Witness ==
    /\ last = Done("tick", "ok")
    /\ width = 3 /\ height = 0
    /\ cells = <<>>

\* C13: render, width, height and set_preset return normally in every
\* reachable state, those with width = 0 or height = 0 included.
C13_TotalCalls ==
    [][last'.op \in {"render", "width", "height", "set_preset"} =>
           last'.outcome = "ok"]_vars

\* C14: render returns height lines, each of width glyphs and a newline; the
\* glyph at line r, position c is the Alive glyph iff cell r * width + c is
\* Alive.
RECURSIVE ExpectedLines(_, _, _, _)
ExpectedLines(bits, w, h, r) ==
    IF r >= h THEN <<>>
    ELSE [c \in 1..w |-> IF bits[r * w + c] THEN AliveSymbol ELSE DeadSymbol]
             \o <<Newline>> \o ExpectedLines(bits, w, h, r + 1)

C14_RenderText ==
    last.op = "render" /\ last.outcome = "ok" =>
        last.text = ExpectedLines(cells, width, height, 0)

\* C15: on an otherwise all-Dead grid at least 4 wide and 4 high, three
\* cells (r, c-1), (r, c), (r, c+1) set by set_cells become, after one tick,
\* exactly the vertical line (r-1, c), (r, c), (r+1, c) (rows modulo height)
\* and, after a second tick, exactly the horizontal line again.
Horizontal(r, c) == {<<r, c - 1>>, <<r, c>>, <<r, c + 1>>}

Vertical(r, c, h) == {<<(r - 1) % h, c>>, <<r, c>>, <<(r + 1) % h, c>>}

BlinkerSteps(r, c) ==
    /\ AllDead(cells) /\ set_cells(BlinkerList(r, c)) =>
           last'.outcome = "ok" /\ Alive(cells', width) = Horizontal(r, c)
    /\ tick_end /\ Alive(cells, width) = Horizontal(r, c) =>
           Alive(cells', width) = Vertical(r, c, height)
    /\ tick_end /\ Alive(cells, width) = Vertical(r, c, height) =>
           Alive(cells', width) = Horizontal(r, c)

C15_Blinker ==
    [][width >= 4 /\ height >= 4 =>
           \A r \in 0..(height - 1), c \in 1..(width - 2) : BlinkerSteps(r, c)]_vars

\* C15 as first stated, on a grid of any size
C15_BlinkerAnyGrid ==
    [][\A r \in 0..(height - 1), c \in 1..(width - 2) : BlinkerSteps(r, c)]_vars

\* the blinker of the first row of a 5 x 4 grid is horizontal again after a tick
C15_Witness ==
    /\ last = Done("tick", "ok")
    /\ width = 5 /\ height = 4
    /\ Alive(cells, width) = Horizontal(0, 3)

\* C16: on a grid with width >= 4 and height >= 4 whose only Alive cells are
\* a 2 x 2 block, tick leaves the cell array as it was, tick after tick.
Block(r, c, w, h) ==
    {<<r, c>>, <<r, (c + 1) % w>>, <<(r + 1) % h, c>>, <<(r + 1) % h, (c + 1) % w>>}

C16_BlockStill ==
    [][width >= 4 /\ height >= 4 =>
           \A r \in 0..(height - 1), c \in 0..(width - 1) :
               tick_end /\ Alive(cells, width) = Block(r, c, width, height) =>
                   cells' = cells]_vars

\* a block in the middle of a 5 x 4 grid, after a tick
C16_Witness ==
    /\ last = Done("tick", "ok")
    /\ width = 5 /\ height = 4
    /\ Alive(cells, width) = Block(1, 2, width, height)

\* C17: new() returns a Universe of width 64 and height 64 with 4096 cells,
\* the cell of linear index i Alive iff i is divisible by 2 or by 7.
C17_New ==
    last = Done("new", "ok") =>
        /\ width = 64
        /\ height = 64
        /\ Len(cells) = 4096
        /\ \A i \in 0..4095 : contains(cells, i) <=> (Divides(2, i) \/ Divides(7, i))

\* the Universe new() returned: cell 7 and cell 4088 Alive, cell 5 Dead
C17_Witness ==
    /\ last = Done("new", "ok")
    /\ contains(cells, 7)
    /\ contains(cells, 4088)
    /\ ~contains(cells, 5)

----------------------------------------------------------------------------
\* C18: in every reachable state, the bit set has width * height bits, and
\* for every cell (r, c) with r < height and c < width the index of the cell,
\* the eight indices live_neighbor_count reads for it and the indices
\* add_pattern writes around it lie in 0 .. width * height - 1; the cell a
\* running tick is at is such a cell, its buffer has width * height bits, and
\* no tick panics. This covers tick after a resize and the grids of width 1
\* or height 1.
IndexRange == 0..(width * height - 1)

NeighborIndexSet(r, c) ==
    LET ix == neighbor_indices(width, height, r, c)
    IN  {ix.nw, ix.n, ix.ne, ix.w, ix.e, ix.sw, ix.s, ix.se}

PatternIndexSet(r, c, pattern) ==
    LET ds == deltas(pattern, width, height)
    IN  {get_index(width, neighbor(width, height, r, c, ds[k])[1],
                          neighbor(width, height, r, c, ds[k])[2]) : k \in 1..Len(ds)}

C18_IndicesInRange ==
    /\ Len(cells) = width * height
    /\ \A r \in 0..(height - 1), c \in 0..(width - 1) :
           /\ get_index(width, r, c) \in IndexRange
           /\ NeighborIndexSet(r, c) \subseteq IndexRange
           /\ \A pattern \in Pattern : PatternIndexSet(r, c, pattern) \subseteq IndexRange
    /\ pc = "tick" =>
           /\ Len(next) = width * height
           /\ row < height /\ width > 0 => col < width
    /\ last # Done("tick", "panic")

\* tick at the last cell of a grid one cell wide, after new() and a resize
C18_Witness ==
    /\ pc = "tick"
    /\ width = 1 /\ height = 2
    /\ row = 1 /\ col = 0

----------------------------------------------------------------------------
\* C19: the call of a step is the op of last'. tick, set_preset, set_cells,
\* toggle_cell, add_pattern, render, get_cells, width and height leave width
\* and height unchanged; set_width leaves height unchanged and set_height
\* leaves width unchanged; width(), height(), get_cells() and render() leave
\* the cells unchanged.
KeepDimensions ==
    {"tick", "set_preset", "set_cells", "toggle_cell", "add_pattern",
     "render", "get_cells", "width", "height"}

KeepCells == {"width", "height", "get_cells", "render"}

C19_Frame ==
    [][/\ last'.op \in KeepDimensions => width' = width /\ height' = height
       /\ last'.op = "set_width" => height' = height
       /\ last'.op = "set_height" => width' = width
       /\ width' # width => last'.op = "set_width"
       /\ height' # height => last'.op = "set_height"
       /\ last'.op \in KeepCells => cells' = cells]_vars

\* set_height has changed the height of the 64 x 64 grid and not its width
C19_Witness ==
    /\ last = Done("set_height", "ok")
    /\ width = 64
    /\ height = 2

----------------------------------------------------------------------------
\* C20: on an all-Dead grid with width >= 6 and height >= 6, add_pattern(r,
\* c, Glider) followed by four ticks gives exactly the cells that
\* add_pattern((r + 1) mod height, (c + 1) mod width, Glider) places on an
\* all-Dead grid, for every in-range anchor.
\* The glider's cells after 0, 1, 2 and 3 generations, relative to the anchor.
GliderPhase ==
    <<{<<-1, 1>>, <<0, -1>>, <<0, 1>>, <<1, 0>>, <<1, 1>>},
      {<<-1, 0>>, <<0, 1>>, <<0, 2>>, <<1, 0>>, <<1, 1>>},
      {<<-1, 1>>, <<0, 2>>, <<1, 0>>, <<1, 1>>, <<1, 2>>},
      {<<0, 0>>, <<0, 2>>, <<1, 1>>, <<1, 2>>, <<2, 1>>}>>

\* the cells of the offsets ds around (r, c), on the torus
Around(ds, r, c, w, h) == {<<(r + d[1]) % h, (c + d[2]) % w>> : d \in ds}

\* the glider of anchor (r, c) after k generations; after four it is the
\* pattern of the next anchor on the diagonal
GliderAfter(k, r, c, w, h) ==
    IF k < 4
    THEN Around(GliderPhase[k + 1], r, c, w, h)
    ELSE Placed((r + 1) % h, (c + 1) % w, Glider, w, h)

C20_GliderMoves ==
    [][width >= 6 /\ height >= 6 =>
           \A r \in 0..(height - 1), c \in 0..(width - 1) :
               /\ AllDead(cells) /\ add_pattern(r, c, Glider) =>
                      Alive(cells', width) = GliderAfter(0, r, c, width, height)
               /\ \A k \in 0..3 :
                      tick_end /\ Alive(cells, width) = GliderAfter(k, r, c, width, height) =>
                          Alive(cells', width) = GliderAfter(k + 1, r, c, width, height)]_vars

\* the Glider added at the last cell (5, 6) of a 7 x 6 grid, four ticks later
C20_Witness ==
    /\ last = Done("tick", "ok")
    /\ width = 7 /\ height = 6
    /\ Alive(cells, width) = Placed(0, 0, Glider, width, height)

====
